---- MODULE Spec2Model ----
(***************************************************************************)
(* PDP Tracker (src/pdp_tracker.py): the snapshot store behind one sqlite3 *)
(* connection, the spreadsheet import (column resolver, row normaliser,    *)
(* aggregator) and the baselines.                                          *)
(*                                                                         *)
(* Text is a sequence of one-character strings, so that str.lower(),       *)
(* str.strip(), str.replace() and the substring test `in` are computed.    *)
(* A spreadsheet cell is NaN (an empty cell as pandas reads it), a text or *)
(* a number.  Amounts are whole numbers: the cell pools hold integer       *)
(* literals only, so decimal fractions, exponents and the IEEE specials    *)
(* (inf, nan as a float) are outside the modelled inputs, and the blank is *)
(* the only whitespace.                                                    *)
(*                                                                         *)
(* The connection is opened with sqlite3's default isolation level: an     *)
(* INSERT opens a transaction that stays open until the next commit(), and *)
(* the code never calls rollback().  The tables are therefore kept as the  *)
(* connection sees them, together with the number of rows of each that the *)
(* last commit() made durable.  A cursor.execute may raise sqlite3.Error   *)
(* (disk full, database locked, I/O error); which call of an import        *)
(* raises, if any, is an input of the import.                              *)
(*                                                                         *)
(* Under Spec one workbook is chosen at the start and every import reads   *)
(* it.  Under SpecReport the operator selects workbooks from a small pool, *)
(* time passes, the store accepts every statement, and the read operations *)
(* (get_baselines, compare_baselines, generate_progress_report) are        *)
(* called; a read operation leaves in `last` what it returned, or the      *)
(* exception it raised.  Python's true division is kept exact, as a ratio  *)
(* of whole numbers.                                                       *)
(***************************************************************************)
EXTENDS Integers, Sequences, FiniteSets, TLC

VARIABLES
    baselines,          \* table baselines, in rowid order (create_baseline commits it)
    agent_performance,  \* table agent_performance as self.conn sees it, in rowid order
    office_totals,      \* table office_totals as self.conn sees it
    company_totals,     \* table company_totals as self.conn sees it
    committed,          \* how many rows of each table the last commit() made durable
    file,               \* the workbook at file_path: None or its sheet (columns, rows)
    imports,            \* number of import_excel_report calls made so far
    today,              \* date.today(), as a day number
    now,                \* CURRENT_TIMESTAMP, as a number of seconds
    last                \* the last call: its arguments, which of its cursor.execute
                        \* calls raised (0: none) and what it returned

vars == <<baselines, agent_performance, office_totals, company_totals,
          committed, file, imports, today, now, last>>

-----------------------------------------------------------------------------
(* Bounds of the model *)

MaxBaselines == 2
MaxImports == 2
MaxRows == 2
MaxHeaders == 3
MaxClock == 1

-----------------------------------------------------------------------------
\* F applied to the value of v, with v evaluated once
Once(v, F(_)) == CHOOSE out \in { F(x) : x \in {v} } : TRUE

-----------------------------------------------------------------------------
(* Text: Python str operations *)

UpperChars == <<"A","B","C","D","E","F","G","H","I","J","K","L","M",
                "N","O","P","Q","R","S","T","U","V","W","X","Y","Z">>
LowerChars == <<"a","b","c","d","e","f","g","h","i","j","k","l","m",
                "n","o","p","q","r","s","t","u","v","w","x","y","z">>

ToLower ==
    [c \in {UpperChars[i] : i \in 1..26} |->
        LowerChars[CHOOSE i \in 1..26 : UpperChars[i] = c]]

\* str.lower() on one character
LowerChar(c) == IF c \in DOMAIN ToLower THEN ToLower[c] ELSE c

\* str.lower()
Lower(s) == [i \in 1..Len(s) |-> LowerChar(s[i])]

Whitespace == {" "}

RECURSIVE LStrip(_)
LStrip(s) ==
    IF s # <<>> /\ Head(s) \in Whitespace THEN LStrip(Tail(s)) ELSE s

RECURSIVE RStrip(_)
RStrip(s) ==
    IF s # <<>> /\ s[Len(s)] \in Whitespace
    THEN RStrip(SubSeq(s, 1, Len(s) - 1))
    ELSE s

\* str.strip()
Strip(s) == RStrip(LStrip(s))

\* the substring test `needle in hay`
Contains(hay, needle) ==
    \E i \in 0..(Len(hay) - Len(needle)) :
        \A k \in 1..Len(needle) : hay[i + k] = needle[k]

\* str.replace(ch, '')
Remove(s, ch) == SelectSeq(s, LAMBDA c : c # ch)

Digits == <<"0","1","2","3","4","5","6","7","8","9">>

IsDigit(c) == \E d \in 1..10 : Digits[d] = c

DigitValue(c) == (CHOOSE d \in 1..10 : Digits[d] = c) - 1

RECURSIVE DigitsValue(_)
DigitsValue(s) ==
    IF s = <<>> THEN 0
    ELSE 10 * DigitsValue(SubSeq(s, 1, Len(s) - 1)) + DigitValue(s[Len(s)])

\* str(n) of a whole number
RECURSIVE NatToStr(_)
NatToStr(n) ==
    IF n < 10 THEN <<Digits[n + 1]>>
    ELSE Append(NatToStr(n \div 10), Digits[(n % 10) + 1])

IntToStr(n) == IF n < 0 THEN <<"-">> \o NatToStr(-n) ELSE NatToStr(n)

-----------------------------------------------------------------------------
(* Cells of a sheet, as pandas hands them to the row loop *)

NaN == [k |-> "nan", s |-> <<>>, n |-> 0]
Text(s) == [k |-> "str", s |-> s, n |-> 0]
Num(n) == [k |-> "num", s |-> <<>>, n |-> n]

\* pd.isna(value)
IsNa(value) == value.k = "nan"

\* str(value)
Str(value) ==
    CASE value.k = "nan" -> <<"n","a","n">>
      [] value.k = "str" -> value.s
      [] value.k = "num" -> IntToStr(value.n)

\* float(text) accepts the text: blanks around an optionally signed run of digits
FloatAccepts(text) ==
    LET t == Strip(text)
        body == IF t # <<>> /\ Head(t) \in {"-", "+"} THEN Tail(t) ELSE t
    IN  /\ body # <<>>
        /\ \A i \in 1..Len(body) : IsDigit(body[i])

\* float(text), for an accepted text
FloatValue(text) ==
    LET t == Strip(text)
    IN  IF Head(t) = "-" THEN 0 - DigitsValue(Tail(t))
        ELSE IF Head(t) = "+" THEN DigitsValue(Tail(t))
        ELSE DigitsValue(t)

\* a _safe_float that parses the text as it stands, '$' and ',' included
safe_float_unstripped(value) ==
    IF IsNa(value) THEN 0
    ELSE IF FloatAccepts(Str(value)) THEN FloatValue(Str(value)) ELSE 0

\* PDPTracker._safe_float
safe_float(value) ==
    IF IsNa(value) THEN 0
    ELSE LET text == Remove(Remove(Str(value), "$"), ",")
         IN  IF FloatAccepts(text) THEN FloatValue(text) ELSE 0

-----------------------------------------------------------------------------
(* Column Resolver *)

K_agent     == <<"a","g","e","n","t">>
K_collector == <<"c","o","l","l","e","c","t","o","r">>
K_name      == <<"n","a","m","e">>
K_employee  == <<"e","m","p","l","o","y","e","e">>
K_office    == <<"o","f","f","i","c","e">>
K_location  == <<"l","o","c","a","t","i","o","n">>
K_branch    == <<"b","r","a","n","c","h">>
K_dept      == <<"d","e","p","t">>
K_current   == <<"c","u","r","r","e","n","t">>
K_this_month    == <<"t","h","i","s"," ","m","o","n","t","h">>
K_current_month == <<"c","u","r","r","e","n","t"," ","m","o","n","t","h">>
K_following == <<"f","o","l","l","o","w","i","n","g">>
K_next_month      == <<"n","e","x","t"," ","m","o","n","t","h">>
K_following_month == <<"f","o","l","l","o","w","i","n","g"," ","m","o","n","t","h">>

AgentNames     == <<K_agent, K_collector, K_name, K_employee>>
OfficeNames    == <<K_office, K_location, K_branch, K_dept>>
CurrentNames   == <<K_current, K_this_month, K_current_month>>
FollowingNames == <<K_following, K_next_month, K_following_month>>

\* the inner loop `for name in possible_names`: does this header match any name
RECURSIVE MatchesFrom(_, _, _)
MatchesFrom(col_lower, possible_names, j) ==
    IF j > Len(possible_names) THEN FALSE
    ELSE IF Contains(col_lower, Lower(possible_names[j])) THEN TRUE
    ELSE MatchesFrom(col_lower, possible_names, j + 1)

\* the outer loop `for col in df.columns`, from header i on; 0 is None
RECURSIVE FindFrom(_, _, _)
FindFrom(columns, possible_names, i) ==
    IF i > Len(columns) THEN 0
    ELSE IF MatchesFrom(Lower(columns[i]), possible_names, 1) THEN i
    ELSE FindFrom(columns, possible_names, i + 1)

\* a resolver that ranks by keyword first: the first keyword any header contains
\* decides, and the first header containing it is returned
RECURSIVE FindByKeyword(_, _, _)
FindByKeyword(columns, possible_names, j) ==
    IF j > Len(possible_names) THEN 0
    ELSE LET hits == {i \in 1..Len(columns) :
                         Contains(Lower(columns[i]), Lower(possible_names[j]))}
         IN  IF hits # {}
             THEN CHOOSE i \in hits : \A h \in hits : i <= h
             ELSE FindByKeyword(columns, possible_names, j + 1)

find_column_ranked(columns, possible_names) ==
    FindByKeyword(columns, possible_names, 1)

\* PDPTracker._find_column: the position of the header returned, 0 for None
find_column(columns, possible_names) == FindFrom(columns, possible_names, 1)

-----------------------------------------------------------------------------
(* Row Normalizer and Aggregator: PDPTracker._process_dataframe *)

T_nan         == <<"n","a","n">>
T_total       == <<"t","o","t","a","l">>
T_grand_total == <<"g","r","a","n","d"," ","t","o","t","a","l">>
T_Unknown     == <<"U","n","k","n","o","w","n">>

\* a skip test that forgets .lower()
SkipRowCaseSensitive(agent_name) ==
    agent_name \in {T_nan, T_total, T_grand_total, <<>>}

\* `agent_name.lower() in ['nan', 'total', 'grand total', '']`
SkipRow(agent_name) ==
    Lower(agent_name) \in {T_nan, T_total, T_grand_total, <<>>}

\* `str(row[office_col]).strip() if office_col else 'Unknown'`
OfficeOf(row, office_col) ==
    IF office_col # 0 THEN Strip(Str(row[office_col])) ELSE T_Unknown

\* `self._safe_float(row[col]) if col else 0`
PromisedOf(row, col) == IF col # 0 THEN safe_float(row[col]) ELSE 0

\* a normalizer that copies the current amount into the total
TotalPromisedCurrentOnly(current_promised, following_promised) == current_promised

\* `total_promised = current_promised + following_promised`
TotalPromised(current_promised, following_promised) ==
    current_promised + following_promised

\* the values bound by INSERT INTO agent_performance for one row
AgentRow(row, cols, baseline_id) ==
    LET current_promised == PromisedOf(row, cols.current)
        following_promised == PromisedOf(row, cols.following)
    IN  [baseline_id |-> baseline_id,
         agent_name |-> Strip(Str(row[cols.agent])),
         office |-> OfficeOf(row, cols.office),
         current_month_promised |-> current_promised,
         following_month_promised |-> following_promised,
         total_promised |-> TotalPromised(current_promised, following_promised)]

\* a dict whose keys are compared without regard to case
KeyIndexIgnoringCase(totals, office) ==
    IF \E i \in 1..Len(totals) : Lower(totals[i].office) = Lower(office)
    THEN CHOOSE i \in 1..Len(totals) : Lower(totals[i].office) = Lower(office)
    ELSE 0

\* position of `office` among the keys of the dict office_totals, 0 if absent
KeyIndex(totals, office) ==
    IF \E i \in 1..Len(totals) : totals[i].office = office
    THEN CHOOSE i \in 1..Len(totals) : totals[i].office = office
    ELSE 0

\* "Accumulate office totals": the dict keeps its keys in first-seen order
Accumulate(totals, office, current_promised, following_promised) ==
    LET with == IF KeyIndex(totals, office) = 0
                THEN Append(totals, [office |-> office, current |-> 0,
                                     following |-> 0, agents |-> 0])
                ELSE totals
        i == KeyIndex(with, office)
    IN  [with EXCEPT ![i] = [office |-> office,
                             current |-> @.current + current_promised,
                             following |-> @.following + following_promised,
                             agents |-> @.agents + 1]]

\* The locals of _process_dataframe while it runs.  `nexec` counts the
\* cursor.execute calls made; the call number `fault` raises sqlite3.Error
\* (disk full, database locked, I/O error), 0 meaning that none does.
StartImport ==
    [agents |-> <<>>, offices |-> <<>>, company |-> <<>>,
     office_totals |-> <<>>, agent_count |-> 0, nexec |-> 0, raised |-> FALSE]

\* one iteration of `for _, row in df.iterrows()`
RowIteration(st, row, cols, baseline_id, fault) ==
    IF st.raised \/ SkipRow(Strip(Str(row[cols.agent]))) THEN st
    ELSE IF st.nexec + 1 = fault THEN [st EXCEPT !.raised = TRUE]
    ELSE LET rec == AgentRow(row, cols, baseline_id)
         IN  [st EXCEPT !.agents = Append(@, rec),
                        !.nexec = @ + 1,
                        !.agent_count = @ + 1,
                        !.office_totals =
                            Accumulate(@, rec.office, rec.current_month_promised,
                                       rec.following_month_promised)]

RECURSIVE RowLoop(_, _, _, _, _, _)
RowLoop(st, rows, i, cols, baseline_id, fault) ==
    IF i > Len(rows) THEN st
    ELSE Once(RowIteration(st, rows[i], cols, baseline_id, fault),
              LAMBDA next : RowLoop(next, rows, i + 1, cols, baseline_id, fault))

\* the values bound by INSERT INTO office_totals for one office
OfficeRow(totals, baseline_id) ==
    [baseline_id |-> baseline_id,
     office |-> totals.office,
     current_month_total |-> totals.current,
     following_month_total |-> totals.following,
     grand_total |-> totals.current + totals.following,
     agent_count |-> totals.agents]

\* `for office, totals in office_totals.items()`
\* one iteration of `for office, totals in office_totals.items()`
OfficeIteration(st, i, baseline_id, fault) ==
    IF st.raised THEN st
    ELSE IF st.nexec + 1 = fault THEN [st EXCEPT !.raised = TRUE]
    ELSE [st EXCEPT !.offices = Append(@, OfficeRow(st.office_totals[i], baseline_id)),
                    !.nexec = @ + 1]

RECURSIVE OfficeLoop(_, _, _, _)
OfficeLoop(st, i, baseline_id, fault) ==
    IF i > Len(st.office_totals) THEN st
    ELSE Once(OfficeIteration(st, i, baseline_id, fault),
              LAMBDA next : OfficeLoop(next, i + 1, baseline_id, fault))

RECURSIVE SumCurrent(_)
SumCurrent(totals) ==
    IF totals = <<>> THEN 0 ELSE Head(totals).current + SumCurrent(Tail(totals))

RECURSIVE SumFollowing(_)
SumFollowing(totals) ==
    IF totals = <<>> THEN 0 ELSE Head(totals).following + SumFollowing(Tail(totals))

\* the values bound by INSERT INTO company_totals
CompanyRow(st, baseline_id) ==
    LET total_current == SumCurrent(st.office_totals)
        total_following == SumFollowing(st.office_totals)
    IN  [baseline_id |-> baseline_id,
         total_current_month |-> total_current,
         total_following_month |-> total_following,
         grand_total |-> total_current + total_following,
         total_agents |-> st.agent_count,
         total_offices |-> Len(st.office_totals)]

\* "Insert company totals"
CompanyInsert(st, baseline_id, fault) ==
    IF st.raised THEN st
    ELSE IF st.nexec + 1 = fault THEN [st EXCEPT !.raised = TRUE]
    ELSE [st EXCEPT !.company = <<CompanyRow(st, baseline_id)>>, !.nexec = @ + 1]

\* the columns _process_dataframe resolves, each a header position or 0
ResolveColumns(columns) ==
    [agent |-> find_column(columns, AgentNames),
     office |-> find_column(columns, OfficeNames),
     current |-> find_column(columns, CurrentNames),
     following |-> find_column(columns, FollowingNames)]

\* what _process_dataframe has done when it returns: the rows inserted, whether
\* self.conn.commit() was reached, and the value returned
Outcome(st) ==
    [agents |-> st.agents, offices |-> st.offices, company |-> st.company,
     commit |-> ~st.raised, ok |-> ~st.raised]

\* PDPTracker._process_dataframe, from `if not agent_col` on: cols are the
\* columns it resolved
process_dataframe(df, cols, baseline_id, fault) ==
    IF cols.agent = 0
    THEN [agents |-> <<>>, offices |-> <<>>, company |-> <<>>,
          commit |-> FALSE, ok |-> FALSE]
    ELSE Once(RowLoop(StartImport, df.rows, 1, cols, baseline_id, fault),
           LAMBDA st1 : Once(OfficeLoop(st1, 1, baseline_id, fault),
             LAMBDA st2 : Once(CompanyInsert(st2, baseline_id, fault), Outcome)))

\* the number of cursor.execute calls of a run in which none raises
Executes(df, cols, baseline_id) ==
    Once(process_dataframe(df, cols, baseline_id, 0),
         LAMBDA r : Len(r.agents) + Len(r.offices) + Len(r.company))

-----------------------------------------------------------------------------
(* The workbooks the operator may import *)

H_Agent        == <<"A","g","e","n","t">>
H_Office       == <<"O","f","f","i","c","e">>
H_Current      == <<"C","u","r","r","e","n","t">>
H_Next_Month   == <<"N","e","x","t"," ","M","o","n","t","h">>
H_NAME         == <<"N","A","M","E">>
H_Region       == <<"R","e","g","i","o","n">>
H_This_Month   == <<"T","h","i","s"," ","M","o","n","t","h">>
H_Later        == <<"L","a","t","e","r">>
H_Rep          == <<"R","e","p">>
H_Following    == <<"F","o","l","l","o","w","i","n","g">>
H_Name         == <<"N","a","m","e">>
H_Agent_Office == <<"A","g","e","n","t"," ","O","f","f","i","c","e">>

ColumnLists ==
    { <<H_Agent, H_Office, H_Current, H_Next_Month>>,
      <<H_NAME, H_Region, H_This_Month, H_Later>>,
      <<H_Rep, H_Office, H_Current, H_Following>>,
      <<H_Name, H_Agent_Office, H_Following, H_Current>> }

Rows ==
    { <<Text(<<" ","J","o","h","n"," ">>), Text(<<"X">>), Text(<<"$","1",",","2">>), Num(3)>>,
      <<Text(<<"G","r","a","n","d"," ","T","o","t","a","l">>), Text(<<"X">>), Num(15), Num(3)>>,
      <<Text(<<"A","n","n">>), NaN, Text(<<"N","/","A">>), Text(<<"-","5">>)>>,
      <<NaN, Text(<<"Y">>), NaN, Num(7)>>,
      <<Text(<<"J","o","h","n">>), Text(<<" ","x">>), NaN, Text(<<"7">>)>>,
      <<Text(<<"T","O","T","A","L"," ">>), Text(<<"Y">>), Num(1), Num(1)>>,
      <<Text(<<" "," ">>), Text(<<"Y">>), Num(1), Num(1)>> }

RowLists == UNION { [1..n -> Rows] : n \in 0..MaxRows }

None == [columns |-> <<>>, rows |-> <<>>, readable |-> FALSE]

\* what pd.read_excel(file_path) gives: None stands for a file no sheet of which
\* can be read
Files ==
    {None} \cup { [columns |-> c, rows |-> r, readable |-> TRUE] :
                    c \in ColumnLists, r \in RowLists }

BaselineNames == {"Initial Analysis"}

-----------------------------------------------------------------------------
(* The store and its operations *)

Lengths(agents, offices, company) ==
    [agents |-> Len(agents), offices |-> Len(offices), company |-> Len(company)]

Init ==
    /\ baselines = <<>>
    /\ agent_performance = <<>>
    /\ office_totals = <<>>
    /\ company_totals = <<>>
    /\ committed = Lengths(<<>>, <<>>, <<>>)
    /\ file \in Files
    /\ imports = 0
    /\ today = 0
    /\ now = 0
    /\ last = [op |-> "none", ok |-> TRUE, baseline_id |-> 0, fault |-> 0]

\* the row INSERT INTO baselines adds: AUTOINCREMENT gives the next id,
\* baseline_date is date.today() and created_at defaults to CURRENT_TIMESTAMP
BaselineRow(name) ==
    [id |-> Len(baselines) + 1, baseline_date |-> today, baseline_name |-> name,
     created_at |-> now]

\* PDPTracker.create_baseline: insert, then commit whatever the connection holds
CreateBaseline ==
    /\ Len(baselines) < MaxBaselines
    /\ \E name \in BaselineNames :
           baselines' = Append(baselines, BaselineRow(name))
    /\ committed' = Lengths(agent_performance, office_totals, company_totals)
    /\ last' = [op |-> "create", ok |-> TRUE, baseline_id |-> Len(baselines) + 1,
                fault |-> 0]
    /\ UNCHANGED <<agent_performance, office_totals, company_totals, file, imports,
                   today, now>>

\* an import that creates a baseline whether or not it was given one
AlwaysCreates(baseline_id) == TRUE

\* `if baseline_id is None`
NeedsBaseline(baseline_id) == baseline_id = 0

\* PDPTracker.import_excel_report(file_path, baseline_id); baseline_id 0 is None.
\* With no baseline_id it calls create_baseline, which commits, and then
\* _process_dataframe, which resolves the columns, inserts and commits unless an
\* insert raises; nothing is rolled back.  `raising` tells whether one of the
\* cursor.execute calls of _process_dataframe raises sqlite3.Error.
Import(baseline_id, raising) ==
    IF ~file.readable
    THEN /\ ~raising
         /\ last' = [op |-> "import", ok |-> FALSE, baseline_id |-> baseline_id,
                     fault |-> 0]
         /\ UNCHANGED <<baselines, agent_performance, office_totals,
                        company_totals, committed>>
    ELSE \E cols \in {ResolveColumns(file.columns)} :
         LET auto == NeedsBaseline(baseline_id)
             bid == IF auto THEN Len(baselines) + 1 ELSE baseline_id
         IN  /\ auto => Len(baselines) < MaxBaselines
             /\ \E fault \in (IF raising THEN 1..Executes(file, cols, bid) ELSE {0}) :
                 \E r \in {process_dataframe(file, cols, bid, fault)} :
                   LET agents == agent_performance \o r.agents
                       offices == office_totals \o r.offices
                       company == company_totals \o r.company
                   IN  /\ baselines' = IF auto
                                       THEN Append(baselines, BaselineRow("Import"))
                                       ELSE baselines
                       /\ agent_performance' = agents
                       /\ office_totals' = offices
                       /\ company_totals' = company
                       /\ committed' =
                              IF r.commit THEN Lengths(agents, offices, company)
                              ELSE IF auto
                              THEN Lengths(agent_performance, office_totals,
                                           company_totals)
                              ELSE committed
                       /\ last' = [op |-> "import", ok |-> r.ok,
                                   baseline_id |-> baseline_id,
                                   fault |-> fault]

\* a call of import_excel_report during which the store accepts every statement
ImportReport ==
    /\ imports < MaxImports
    /\ imports' = imports + 1
    /\ UNCHANGED <<file, today, now>>
    /\ \E baseline_id \in 0..MaxBaselines : Import(baseline_id, FALSE)

\* a call of import_excel_report during which a cursor.execute raises
\* sqlite3.Error (disk full, database locked, I/O error)
ImportReportStoreError ==
    /\ imports < MaxImports
    /\ imports' = imports + 1
    /\ UNCHANGED <<file, today, now>>
    /\ \E baseline_id \in 0..MaxBaselines : Import(baseline_id, TRUE)

Next == CreateBaseline \/ ImportReport \/ ImportReportStoreError

Spec == Init /\ [][Next]_vars

\* the tables as a reader on another connection, or after a restart, sees them
Durable(table, n) == SubSeq(table, 1, n)

-----------------------------------------------------------------------------
(* The Column Resolver on its own: _find_column applied to any header list *)

Headers ==
    { H_Agent, H_Name, H_NAME, H_Office, H_Agent_Office, H_Current,
      H_This_Month, H_Next_Month, H_Following, H_Rep }

HeaderLists == UNION { [1..n -> Headers] : n \in 0..MaxHeaders }

KeywordLists ==
    { AgentNames, OfficeNames, CurrentNames, FollowingNames, <<K_name, K_agent>> }

InitResolve ==
    /\ baselines = <<>>
    /\ agent_performance = <<>>
    /\ office_totals = <<>>
    /\ company_totals = <<>>
    /\ committed = Lengths(<<>>, <<>>, <<>>)
    /\ file \in { [columns |-> c, rows |-> <<>>, readable |-> TRUE] : c \in HeaderLists }
    /\ imports = 0
    /\ today = 0
    /\ now = 0
    /\ last = [op |-> "none", ok |-> TRUE, baseline_id |-> 0, fault |-> 0]

\* a call self._find_column(df, possible_names)
FindColumn ==
    /\ \E possible_names \in KeywordLists :
           last' = [op |-> "find_column", possible_names |-> possible_names,
                    col |-> find_column(file.columns, possible_names)]
    /\ UNCHANGED <<baselines, agent_performance, office_totals, company_totals,
                   committed, file, imports, today, now>>

SpecResolve == InitResolve /\ [][FindColumn]_vars

\* the headers whose lowercased text contains at least one of the keywords
MatchingHeaders(columns, names) ==
    {i \in 1..Len(columns) :
        \E j \in 1..Len(names) : Contains(Lower(columns[i]), names[j])}

\* C10: the resolver returns the first header, in header order, whose
\* lowercased text contains any candidate keyword, and None exactly when no
\* header contains one.
C10_FirstMatchingHeader ==
    last.op = "find_column" =>
        \A hits \in {MatchingHeaders(file.columns, last.possible_names)} :
            IF hits = {} THEN last.col = 0
            ELSE last.col \in hits /\ \A h \in hits : last.col <= h

\* the first header matches only a lower-priority keyword, a later header
\* matches the first keyword, and the first header is returned
C10_Witness ==
    /\ last.op = "find_column"
    /\ last.col = 1
    /\ Len(file.columns) >= 2
    /\ ~Contains(Lower(file.columns[1]), last.possible_names[1])
    /\ Contains(Lower(file.columns[2]), last.possible_names[1])

-----------------------------------------------------------------------------
(* Vocabulary of the properties *)

RECURSIVE SumSeq(_)
SumSeq(seq) == IF seq = <<>> THEN 0 ELSE Head(seq) + SumSeq(Tail(seq))

SumOver(seq, F(_)) == SumSeq([i \in 1..Len(seq) |-> F(seq[i])])

OfBaseline(table, b) == SelectSeq(table, LAMBDA row : row.baseline_id = b)

\* every baseline id a row can carry
Ids == 1..MaxBaselines

DurableAgents == Durable(agent_performance, committed.agents)
DurableOffices == Durable(office_totals, committed.offices)
DurableCompany == Durable(company_totals, committed.company)

\* a step of import_excel_report, and the rows it added to each table
ImportStep == imports' = imports + 1
NewAgents ==
    SubSeq(agent_performance', Len(agent_performance) + 1, Len(agent_performance'))
NewOffices == SubSeq(office_totals', Len(office_totals) + 1, Len(office_totals'))
NewCompany == SubSeq(company_totals', Len(company_totals) + 1, Len(company_totals'))

\* C1: the durable store never holds agent records or office aggregates of an
\* import whose company aggregate was not made durable with them: for every
\* baseline the durable agent rows are as many as the durable company rows
\* count (total_agents), and the durable office rows as many as they count
\* (total_offices).
C1_ImportIsAtomic ==
    \A b \in Ids :
        /\ Len(OfBaseline(DurableAgents, b)) =
               SumOver(OfBaseline(DurableCompany, b), LAMBDA c : c.total_agents)
        /\ Len(OfBaseline(DurableOffices, b)) =
               SumOver(OfBaseline(DurableCompany, b), LAMBDA c : c.total_offices)

\* C2: for every baseline with a company aggregate, the aggregate a reader
\* fetches for it has grand_total equal to the sum of grand_total over all the
\* baseline's office rows, and every office row has
\* grand_total = current_month_total + following_month_total.
C2_GrandTotalIsOfficeSum ==
    /\ \A b \in Ids :
           OfBaseline(company_totals, b) # <<>> =>
               Head(OfBaseline(company_totals, b)).grand_total =
                   SumOver(OfBaseline(office_totals, b), LAMBDA o : o.grand_total)
    /\ \A i \in 1..Len(office_totals) :
           office_totals[i].grand_total =
               office_totals[i].current_month_total
                   + office_totals[i].following_month_total

\* C3: every baseline has at most one row in company_totals.
C3_OneCompanyRowPerBaseline ==
    \A b \in Ids : Len(OfBaseline(company_totals, b)) <= 1

\* C4: an import of a sheet none of whose headers matches an agent keyword
\* returns failure and writes no row to any table, with or without a baseline id.
C4_NoAgentColumnWritesNothing ==
    [][(ImportStep /\ file.readable /\ find_column(file.columns, AgentNames) = 0)
          => /\ last'.ok = FALSE
             /\ UNCHANGED <<baselines, agent_performance, office_totals,
                            company_totals, committed>>]_vars

\* C5: every stored agent row has
\* total_promised = current_month_promised + following_month_promised.
C5_TotalPromisedIsSum ==
    \A i \in 1..Len(agent_performance) :
        agent_performance[i].total_promised =
            agent_performance[i].current_month_promised
                + agent_performance[i].following_month_promised

\* a stored row with both amounts positive, after an import
C5_Witness ==
    /\ last.op = "import"
    /\ \E i \in 1..Len(agent_performance) :
           /\ agent_performance[i].current_month_promised > 0
           /\ agent_performance[i].following_month_promised > 0
           /\ agent_performance[i].total_promised > 0

\* C6: every monetary field of every stored agent, office and company row is
\* non-negative.
C6_MoneyNonNegative ==
    /\ \A i \in 1..Len(agent_performance) :
           /\ agent_performance[i].current_month_promised >= 0
           /\ agent_performance[i].following_month_promised >= 0
           /\ agent_performance[i].total_promised >= 0
    /\ \A i \in 1..Len(office_totals) :
           /\ office_totals[i].current_month_total >= 0
           /\ office_totals[i].following_month_total >= 0
           /\ office_totals[i].grand_total >= 0
    /\ \A i \in 1..Len(company_totals) :
           /\ company_totals[i].total_current_month >= 0
           /\ company_totals[i].total_following_month >= 0
           /\ company_totals[i].grand_total >= 0

\* the agent-name cell, trimmed and lowercased, is empty, "nan", "total" or
\* "grand total"
IsSummaryName(cell) ==
    Lower(Strip(Str(cell))) \in {<<>>, T_nan, T_total, T_grand_total}

\* the rows of the sheet that are not blank, total or summary lines
KeptRows(cols) ==
    SelectSeq(file.rows, LAMBDA row : ~IsSummaryName(row[cols.agent]))

NumberChars == {Digits[d] : d \in 1..10} \cup {"-", "+", "$", ",", " "}

\* a currency cell that cannot be parsed: a missing cell (NaN), or a text with a
\* character no number has, or with no digit at all
Unparsable(cell) ==
    \/ IsNa(cell)
    \/ /\ cell.k = "str"
       /\ \/ \E i \in 1..Len(cell.s) : cell.s[i] \notin NumberChars
          \/ \A i \in 1..Len(cell.s) : ~IsDigit(cell.s[i])

\* a text of digits, currency symbols and thousands separators, e.g. "$1,234"
IsMoneyText(cell) ==
    /\ cell.k = "str"
    /\ \A i \in 1..Len(cell.s) : IsDigit(cell.s[i]) \/ cell.s[i] \in {"$", ","}
    /\ \E i \in 1..Len(cell.s) : IsDigit(cell.s[i])

\* the amount such a text denotes
MoneyValue(cell) == DigitsValue(SelectSeq(cell.s, IsDigit))

\* what the claim says of one currency cell and the amount stored for it
ParsedAs(cell, amount) ==
    /\ Unparsable(cell) => amount = 0
    /\ IsMoneyText(cell) => amount = MoneyValue(cell)

\* C7: an unparsable currency cell never aborts the import and is stored as 0:
\* an import of a readable sheet with an agent column fails only if an insert
\* raised; when it succeeds every kept row is stored, with amount 0 for each
\* unparsable cell and with '$' and ',' stripped from a money text.
C7_UnparsableCellIsZero ==
    [][(ImportStep /\ file.readable) =>
          \A cols \in {ResolveColumns(file.columns)} :
              cols.agent # 0 =>
                  /\ last'.fault = 0 => last'.ok
                  /\ last'.ok =>
                       \A kept \in {KeptRows(cols)} : \A new \in {NewAgents} :
                         /\ Len(new) = Len(kept)
                         /\ \A i \in 1..Len(new) :
                              /\ cols.current # 0 =>
                                     ParsedAs(kept[i][cols.current],
                                              new[i].current_month_promised)
                              /\ cols.following # 0 =>
                                     ParsedAs(kept[i][cols.following],
                                              new[i].following_month_promised)
       ]_vars

\* a successful import of two kept rows, one with an unparsable current-period
\* cell stored as 0, the other with a money text stored as its value
C7_Witness ==
    /\ last.op = "import" /\ last.ok /\ imports = 1
    /\ \E cols \in {ResolveColumns(file.columns)} :
         /\ cols.current # 0
         /\ Len(agent_performance) = 2
         /\ Len(KeptRows(cols)) = 2
         /\ \E i, j \in 1..2 :
              /\ Unparsable(KeptRows(cols)[i][cols.current])
              /\ ~IsNa(KeptRows(cols)[i][cols.current])
              /\ agent_performance[i].current_month_promised = 0
              /\ IsMoneyText(KeptRows(cols)[j][cols.current])
              /\ agent_performance[j].current_month_promised = 12

\* C8: a successful import stores exactly one agent row per row that is not a
\* blank, total or summary line, in sheet order; the skipped rows add nothing
\* to the agent count, the office count or any office or company sum.
C8_SummaryRowsSkipped ==
    [][(ImportStep /\ file.readable /\ last'.ok) =>
          \A cols \in {ResolveColumns(file.columns)} :
            \A kept \in {KeptRows(cols)} :
              /\ Len(NewAgents) = Len(kept)
              /\ \A i \in 1..Len(NewAgents) :
                     NewAgents[i].agent_name = Strip(Str(kept[i][cols.agent]))
              /\ Len(NewCompany) = 1
              /\ NewCompany[1].total_agents = Len(kept)
              /\ SumOver(NewOffices, LAMBDA o : o.agent_count) = Len(kept)
              /\ NewCompany[1].total_offices =
                     Cardinality({NewAgents[i].office : i \in 1..Len(NewAgents)})
              /\ Len(NewOffices) = NewCompany[1].total_offices
              /\ NewCompany[1].total_current_month =
                     SumOver(NewAgents, LAMBDA a : a.current_month_promised)
              /\ NewCompany[1].total_following_month =
                     SumOver(NewAgents, LAMBDA a : a.following_month_promised)
              /\ SumOver(NewOffices, LAMBDA o : o.current_month_total) =
                     SumOver(NewAgents, LAMBDA a : a.current_month_promised)
              /\ SumOver(NewOffices, LAMBDA o : o.following_month_total) =
                     SumOver(NewAgents, LAMBDA a : a.following_month_promised)
       ]_vars

\* a successful import of a sheet with one agent row and one summary row that
\* carries amounts: one agent row stored, the company total that row's alone
C8_Witness ==
    /\ last.op = "import" /\ last.ok /\ imports = 1
    /\ Len(file.rows) = 2
    /\ Len(agent_performance) = 1
    /\ \E cols \in {ResolveColumns(file.columns)} :
         /\ cols.current # 0
         /\ \E i \in 1..2 :
              /\ IsSummaryName(file.rows[i][cols.agent])
              /\ ~IsNa(file.rows[i][cols.agent])
              /\ safe_float(file.rows[i][cols.current]) > 0
    /\ company_totals[1].total_agents = 1
    /\ company_totals[1].total_current_month =
           agent_performance[1].current_month_promised

\* the office cell is absent: empty (NaN) or blank
IsAbsent(cell) == IsNa(cell) \/ (cell.k = "str" /\ Strip(cell.s) = <<>>)

\* C9: in a successful import every kept row whose office column is unresolved
\* or whose office cell is absent is stored with office "Unknown" and the
\* office "Unknown" has an aggregate.
C9_AbsentOfficeIsUnknown ==
    [][(ImportStep /\ file.readable /\ last'.ok) =>
          \A cols \in {ResolveColumns(file.columns)} :
            \A kept \in {KeptRows(cols)} :
              \A i \in 1..Len(NewAgents) :
                  (i <= Len(kept) /\ (cols.office = 0 \/ IsAbsent(kept[i][cols.office])))
                      => /\ NewAgents[i].office = T_Unknown
                         /\ \E k \in 1..Len(NewOffices) :
                                NewOffices[k].office = T_Unknown
       ]_vars

\* C11: a successful import writes exactly one office row per distinct office
\* string (compared exactly, case included) among the agent records it stored
\* for the rows it kept; the row's current and following totals are the sums
\* over the records of that office and its agent_count is the number of those
\* records, two records of the same agent name counting twice.
C11_OneAggregatePerOffice ==
    [][(ImportStep /\ file.readable /\ last'.ok) =>
          \A cols \in {ResolveColumns(file.columns)} :
            \A new \in {NewAgents} : \A offs \in {NewOffices} :
              LET names == {new[i].office : i \in 1..Len(new)}
              IN  /\ Len(new) = Len(KeptRows(cols))
                  /\ Len(offs) = Cardinality(names)
                  /\ \A o \in names : \E k \in 1..Len(offs) : offs[k].office = o
                  /\ \A k \in 1..Len(offs) :
                       \A rows \in {SelectSeq(new, LAMBDA a : a.office = offs[k].office)} :
                         /\ rows # <<>>
                         /\ offs[k].current_month_total =
                                SumOver(rows, LAMBDA a : a.current_month_promised)
                         /\ offs[k].following_month_total =
                                SumOver(rows, LAMBDA a : a.following_month_promised)
                         /\ offs[k].agent_count = Len(rows)
       ]_vars

\* a successful import of two rows of the same agent name whose offices differ
\* only by case: two office rows, each counting one agent
C11_Witness ==
    /\ last.op = "import" /\ last.ok /\ imports = 1
    /\ Len(agent_performance) = 2
    /\ agent_performance[1].agent_name = agent_performance[2].agent_name
    /\ agent_performance[1].office # agent_performance[2].office
    /\ Lower(agent_performance[1].office) = Lower(agent_performance[2].office)
    /\ Len(office_totals) = 2
    /\ office_totals[1].agent_count = 1
    /\ office_totals[2].agent_count = 1

\* C12: the company row a successful import writes has total_agents equal to
\* the number of distinct agent names among the agent records the import
\* stored, total_offices equal to the number of distinct offices among them,
\* and current and following totals equal to the sums over the office rows the
\* import wrote.
C12_CompanyCountsDistinct ==
    [][(ImportStep /\ file.readable /\ last'.ok) =>
          \A new \in {NewAgents} : \A offs \in {NewOffices} :
              /\ Len(NewCompany) = 1
              /\ NewCompany[1].total_agents =
                     Cardinality({new[i].agent_name : i \in 1..Len(new)})
              /\ NewCompany[1].total_offices =
                     Cardinality({new[i].office : i \in 1..Len(new)})
              /\ NewCompany[1].total_current_month =
                     SumOver(offs, LAMBDA o : o.current_month_total)
              /\ NewCompany[1].total_following_month =
                     SumOver(offs, LAMBDA o : o.following_month_total)
       ]_vars

-----------------------------------------------------------------------------
(* Reading the store: get_baselines, compare_baselines, *)
(* generate_progress_report                              *)

\* what fetchone() returns when the query has no row: None
NoRow == [none |-> TRUE]

\* cursor.fetchone(): the first row the query delivers
FetchOne(rows) == IF rows = <<>> THEN NoRow ELSE Head(rows)

\* seq without its element at position i
Without(seq, i) == SubSeq(seq, 1, i - 1) \o SubSeq(seq, i + 1, Len(seq))

\* ORDER BY key DESC over a table scan: rows[i] has key keys[i]; rows of equal
\* key stay in the order of the scan, which is rowid order
RECURSIVE OrderDesc(_, _)
OrderDesc(rows, keys) ==
    IF rows = <<>> THEN <<>>
    ELSE LET best == CHOOSE i \in 1..Len(rows) :
                         \A j \in 1..Len(rows) :
                             \/ keys[j] < keys[i]
                             \/ keys[j] = keys[i] /\ i <= j
         IN  <<rows[best]>> \o OrderDesc(Without(rows, best), Without(keys, best))

\* PDPTracker.get_baselines: SELECT ... FROM baselines ORDER BY baseline_date DESC
get_baselines ==
    OrderDesc(baselines, [i \in 1..Len(baselines) |-> baselines[i].baseline_date])

\* 'SELECT * FROM baselines WHERE id = ?' ... fetchone()
BaselineById(id) == FetchOne(SelectSeq(baselines, LAMBDA b : b.id = id))

\* a read of the company totals that adds up all the rows of the baseline
CompanyTotalsSummed(baseline_id) ==
    LET rows == SelectSeq(company_totals, LAMBDA c : c.baseline_id = baseline_id)
    IN  IF rows = <<>> THEN NoRow
        ELSE [baseline_id |-> baseline_id,
              total_current_month |->
                  SumSeq([i \in 1..Len(rows) |-> rows[i].total_current_month]),
              total_following_month |->
                  SumSeq([i \in 1..Len(rows) |-> rows[i].total_following_month]),
              grand_total |->
                  SumSeq([i \in 1..Len(rows) |-> rows[i].grand_total]),
              total_agents |->
                  SumSeq([i \in 1..Len(rows) |-> rows[i].total_agents]),
              total_offices |->
                  SumSeq([i \in 1..Len(rows) |-> rows[i].total_offices])]

\* 'SELECT * FROM company_totals WHERE baseline_id = ?' ... fetchone()
CompanyTotalsOf(baseline_id) ==
    FetchOne(SelectSeq(company_totals, LAMBDA c : c.baseline_id = baseline_id))

\* an exception leaves the method
Raised(exception) == [kind |-> "raised", exception |-> exception]

\* {"error": message}
ErrorResult(message) == [kind |-> "error", error |-> message]

\* the quotient num / den of Python's true division, kept exact
Ratio(num, den) == [num |-> num, den |-> den]

\* a percentage that divides whenever the base is not zero
PercentNonZero(improvement, base) ==
    IF base # 0 THEN Ratio(improvement * 100, base) ELSE Ratio(0, 1)

\* `(improvement / base * 100) if base > 0 else 0`
Percent(improvement, base) ==
    IF base > 0 THEN Ratio(improvement * 100, base) ELSE Ratio(0, 1)

\* compare_baselines from "Calculate improvements" on; subscripting None
\* raises TypeError
Comparison(baseline1, baseline2, totals1, totals2) ==
    IF totals1 = NoRow \/ totals2 = NoRow THEN Raised("TypeError")
    ELSE LET current_improvement ==
                 totals2.total_current_month - totals1.total_current_month
             following_improvement ==
                 totals2.total_following_month - totals1.total_following_month
             grand_improvement == totals2.grand_total - totals1.grand_total
             agent_change == totals2.total_agents - totals1.total_agents
         IN  [kind |-> "comparison",
              baseline1 |-> [name |-> baseline1.baseline_name,
                             date |-> baseline1.baseline_date,
                             grand_total |-> totals1.grand_total],
              baseline2 |-> [name |-> baseline2.baseline_name,
                             date |-> baseline2.baseline_date,
                             grand_total |-> totals2.grand_total],
              improvements |->
                  [current_month |-> current_improvement,
                   following_month |-> following_improvement,
                   grand_total |-> grand_improvement,
                   agent_change |-> agent_change,
                   current_month_percent |->
                       Percent(current_improvement, totals1.total_current_month),
                   following_month_percent |->
                       Percent(following_improvement, totals1.total_following_month),
                   grand_total_percent |->
                       Percent(grand_improvement, totals1.grand_total)]]

\* a check of the company totals that looks at the first baseline's only
TotalsMissingFirstOnly(totals1, totals2) == totals1 = NoRow

\* `not totals1 or not totals2`
TotalsMissing(totals1, totals2) == totals1 = NoRow \/ totals2 = NoRow

\* PDPTracker.compare_baselines
compare_baselines(baseline1_id, baseline2_id) ==
    LET baseline1 == BaselineById(baseline1_id)
        baseline2 == BaselineById(baseline2_id)
        totals1 == CompanyTotalsOf(baseline1_id)
        totals2 == CompanyTotalsOf(baseline2_id)
    IN  IF baseline1 = NoRow \/ baseline2 = NoRow
        THEN ErrorResult("One or both baselines not found")
        ELSE IF TotalsMissing(totals1, totals2)
        THEN ErrorResult("Company totals not found for one or both baselines")
        ELSE Comparison(baseline1, baseline2, totals1, totals2)

\* 'SELECT id FROM baselines ORDER BY created_at DESC LIMIT 1' ... fetchone()
MostRecentBaseline ==
    FetchOne(OrderDesc(baselines,
                       [i \in 1..Len(baselines) |-> baselines[i].created_at]))

\* the local baseline_id of generate_progress_report after `if baseline_id is
\* None`; the argument 0 is None, and so is the result when no baseline is found
ReportBaselineId(baseline_id) ==
    IF baseline_id # 0 THEN baseline_id
    ELSE IF MostRecentBaseline = NoRow THEN 0
    ELSE MostRecentBaseline.id

\* "Get office breakdown": SELECT ... FROM office_totals WHERE baseline_id = ?
\* ORDER BY grand_total DESC
OfficeBreakdown(baseline_id) ==
    LET rows == SelectSeq(office_totals, LAMBDA o : o.baseline_id = baseline_id)
    IN  OrderDesc(rows, [i \in 1..Len(rows) |-> rows[i].grand_total])

\* PDPTracker.generate_progress_report: the message, the report with the
\* values it prints, or the exception the f-string raises (subscripting None,
\* dividing by a zero agent count)
generate_progress_report(baseline_id) ==
    LET id == ReportBaselineId(baseline_id)
        baseline_info == BaselineById(id)
        company_total == CompanyTotalsOf(id)
    IN  IF baseline_id = 0 /\ MostRecentBaseline = NoRow
        THEN [kind |-> "message", text |-> "No baselines found. Please import data first."]
        ELSE IF baseline_info = NoRow THEN Raised("TypeError")
        ELSE IF company_total = NoRow THEN Raised("TypeError")
        ELSE IF company_total.total_agents = 0 THEN Raised("ZeroDivisionError")
        ELSE [kind |-> "report",
              baseline |-> baseline_info.baseline_name,
              date |-> baseline_info.baseline_date,
              current_month |-> company_total.total_current_month,
              following_month |-> company_total.total_following_month,
              grand_total |-> company_total.grand_total,
              total_agents |-> company_total.total_agents,
              total_offices |-> company_total.total_offices,
              average_per_agent |->
                  Ratio(company_total.grand_total, company_total.total_agents),
              offices |-> OfficeBreakdown(id)]

-----------------------------------------------------------------------------
(* The tracker in use: workbooks are selected and imported, time passes, and *)
(* the baselines are listed, compared and reported on                        *)

W_empty == [columns |-> <<H_Agent, H_Office, H_Current, H_Next_Month>>,
            rows |-> <<>>, readable |-> TRUE]

W_two ==
    [columns |-> <<H_Agent, H_Office, H_Current, H_Next_Month>>,
     rows |-> << <<Text(<<" ","J","o","h","n"," ">>), Text(<<"X">>),
                   Text(<<"$","1",",","2">>), Num(3)>>,
                 <<Text(<<"J","o","h","n">>), Text(<<" ","x">>), NaN,
                   Text(<<"7">>)>> >>,
     readable |-> TRUE]

W_negative ==
    [columns |-> <<H_Agent, H_Office, H_Current, H_Next_Month>>,
     rows |-> << <<Text(<<"A","n","n">>), NaN, Text(<<"N","/","A">>),
                   Text(<<"-","5">>)>> >>,
     readable |-> TRUE]

ReportFiles == {W_empty, W_two, W_negative}

InitReport ==
    /\ baselines = <<>>
    /\ agent_performance = <<>>
    /\ office_totals = <<>>
    /\ company_totals = <<>>
    /\ committed = Lengths(<<>>, <<>>, <<>>)
    /\ file \in ReportFiles
    /\ imports = 0
    /\ today = 0
    /\ now = 0
    /\ last = [op |-> "none", ok |-> TRUE, baseline_id |-> 0, fault |-> 0]

\* the operator selects another workbook
SelectFile ==
    /\ file' \in ReportFiles \ {file}
    /\ last' = [op |-> "select_file"]
    /\ UNCHANGED <<baselines, agent_performance, office_totals, company_totals,
                   committed, imports, today, now>>

\* a second passes within the day
TickSecond ==
    /\ now < MaxClock
    /\ now' = now + 1
    /\ UNCHANGED <<baselines, agent_performance, office_totals, company_totals,
                   committed, file, imports, today, last>>

\* midnight passes
TickDay ==
    /\ now < MaxClock
    /\ now' = now + 1
    /\ today' = today + 1
    /\ UNCHANGED <<baselines, agent_performance, office_totals, company_totals,
                   committed, file, imports, last>>

\* a call of get_baselines()
GetBaselines ==
    /\ last' = [op |-> "get_baselines", result |-> get_baselines]
    /\ UNCHANGED <<baselines, agent_performance, office_totals, company_totals,
                   committed, file, imports, today, now>>

\* a call of compare_baselines(baseline1_id, baseline2_id), with ids of
\* baselines that exist or not
CompareBaselines ==
    /\ \E baseline1_id, baseline2_id \in 1..(MaxBaselines + 1) :
           last' = [op |-> "compare", baseline1_id |-> baseline1_id,
                    baseline2_id |-> baseline2_id,
                    result |-> compare_baselines(baseline1_id, baseline2_id)]
    /\ UNCHANGED <<baselines, agent_performance, office_totals, company_totals,
                   committed, file, imports, today, now>>

\* a call of generate_progress_report(baseline_id); baseline_id 0 is None
GenerateProgressReport ==
    /\ \E baseline_id \in 0..(MaxBaselines + 1) :
           last' = [op |-> "report", baseline_id |-> baseline_id,
                    resolved |-> ReportBaselineId(baseline_id),
                    result |-> generate_progress_report(baseline_id)]
    /\ UNCHANGED <<baselines, agent_performance, office_totals, company_totals,
                   committed, file, imports, today, now>>

NextReport ==
    \/ CreateBaseline
    \/ ImportReport
    \/ SelectFile
    \/ TickSecond
    \/ TickDay
    \/ GetBaselines
    \/ CompareBaselines
    \/ GenerateProgressReport

SpecReport == InitReport /\ [][NextReport]_vars

-----------------------------------------------------------------------------
(* Properties of the read operations *)

\* a baseline row with this id exists
Exists(id) == \E i \in 1..Len(baselines) : baselines[i].id = id

\* the baseline has a company aggregate
HasCompany(id) == OfBaseline(company_totals, id) # <<>>

\* the company aggregate a reader fetches for the baseline
Aggregate(id) == Head(OfBaseline(company_totals, id))

\* this step is a call of the read operation op
Calls(op) == last' # last /\ last'.op = op

\* C13: a call compare_baselines(id1, id2) in which either id is not the id of
\* a baseline, or either baseline has no company aggregate, returns an error
\* result, raises nothing and leaves every table, and what is committed,
\* unchanged.
C13_CompareMissingIsError ==
    [][Calls("compare") =>
          /\ (\/ ~Exists(last'.baseline1_id) \/ ~Exists(last'.baseline2_id)
              \/ ~HasCompany(last'.baseline1_id) \/ ~HasCompany(last'.baseline2_id))
                 => last'.result.kind = "error"
          /\ last'.result.kind # "raised"
          /\ UNCHANGED <<baselines, agent_performance, office_totals,
                         company_totals, committed>>
       ]_vars

\* a comparison of a baseline that was imported with one that was created and
\* never imported: an error result
C13_Witness ==
    /\ last.op = "compare"
    /\ Exists(last.baseline1_id) /\ Exists(last.baseline2_id)
    /\ HasCompany(last.baseline1_id) /\ ~HasCompany(last.baseline2_id)
    /\ last.result.kind = "error"

\* p is delta / base * 100 when base > 0, and 0 otherwise
IsPercentChange(p, delta, base) ==
    /\ p.den # 0
    /\ IF base > 0 THEN p.num * base = delta * 100 * p.den ELSE p.num = 0

\* C14: when both baselines and their company aggregates exist,
\* compare_baselines returns, for current, following and grand total, the
\* difference aggregate 2 minus aggregate 1, the difference of total_agents, and
\* for each total X the percentage delta_X / agg1.X * 100 when agg1.X > 0 and 0
\* otherwise.
C14_DeltasAndPercentages ==
    (/\ last.op = "compare"
     /\ Exists(last.baseline1_id) /\ Exists(last.baseline2_id)
     /\ HasCompany(last.baseline1_id) /\ HasCompany(last.baseline2_id)) =>
        \A agg1 \in {Aggregate(last.baseline1_id)} :
          \A agg2 \in {Aggregate(last.baseline2_id)} :
            /\ last.result.kind = "comparison"
            /\ \A imp \in {last.result.improvements} :
                /\ imp.current_month =
                       agg2.total_current_month - agg1.total_current_month
                /\ imp.following_month =
                       agg2.total_following_month - agg1.total_following_month
                /\ imp.grand_total = agg2.grand_total - agg1.grand_total
                /\ imp.agent_change = agg2.total_agents - agg1.total_agents
                /\ IsPercentChange(imp.current_month_percent, imp.current_month,
                                   agg1.total_current_month)
                /\ IsPercentChange(imp.following_month_percent, imp.following_month,
                                   agg1.total_following_month)
                /\ IsPercentChange(imp.grand_total_percent, imp.grand_total,
                                   agg1.grand_total)

\* a comparison whose first baseline has grand total 0 and whose second has a
\* positive one: the change is the second's grand total, the percentage 0
C14_Witness ==
    /\ last.op = "compare"
    /\ last.result.kind = "comparison"
    /\ last.result.baseline1.grand_total = 0
    /\ last.result.baseline2.grand_total > 0
    /\ last.result.improvements.grand_total = last.result.baseline2.grand_total
    /\ last.result.improvements.grand_total_percent.num = 0

\* C15: generate_progress_report on a baseline whose company aggregate counts
\* zero agents returns a report and raises nothing.
C15_ZeroAgentsReportDefined ==
    (/\ last.op = "report"
     /\ Exists(last.resolved) /\ HasCompany(last.resolved)
     /\ Aggregate(last.resolved).total_agents = 0) =>
        last.result.kind = "report"

\* C16: no read operation raises; generate_progress_report for an id that is
\* not the id of a baseline, or for a baseline without company aggregate,
\* returns a failure result and raises nothing.
C16_NoRawFault ==
    /\ last.op \in {"compare", "report"} => last.result.kind # "raised"
    /\ (/\ last.op = "report" /\ last.resolved # 0
        /\ (~Exists(last.resolved) \/ ~HasCompany(last.resolved))) =>
           last.result.kind = "message"

\* C17: get_baselines returns every baseline once, a later baseline_date before
\* an earlier one and, of two baselines of the same baseline_date, the one
\* created later (the greater id) first.
C17_NewestFirst ==
    last.op = "get_baselines" =>
        \A result \in {last.result} :
            /\ Len(result) = Len(baselines)
            /\ \A b \in 1..Len(baselines) :
                   \E i \in 1..Len(result) : result[i] = baselines[b]
            /\ \A i, j \in 1..Len(result) :
                   i < j =>
                       \/ result[i].baseline_date > result[j].baseline_date
                       \/ /\ result[i].baseline_date = result[j].baseline_date
                          /\ result[i].id > result[j].id

\* the baseline holds one complete import: one company row, which counts the
\* baseline's agent rows and office rows
ImportedOnce(b) ==
    /\ Len(OfBaseline(company_totals, b)) = 1
    /\ Len(OfBaseline(agent_performance, b)) = Aggregate(b).total_agents
    /\ Len(OfBaseline(office_totals, b)) = Aggregate(b).total_offices

\* this step is a successful import, into a baseline that holds one complete
\* import, of the very rows that import stored
Reimports(b) ==
    /\ ImportStep /\ last'.ok /\ last'.baseline_id = b
    /\ ImportedOnce(b)
    /\ NewAgents # <<>>
    /\ NewAgents = OfBaseline(agent_performance, b)

\* the baseline holds the same rows imported twice, completely
ImportedTwice(b) ==
    \A agents \in {OfBaseline(agent_performance, b)} :
      \A company \in {OfBaseline(company_totals, b)} :
        \E n \in 1..Len(agents) :
            /\ Len(agents) = 2 * n
            /\ SubSeq(agents, 1, n) = SubSeq(agents, n + 1, 2 * n)
            /\ Len(company) = 2
            /\ company[1] = company[2]
            /\ company[1].total_agents = n

\* the sums over every stored agent row of the baseline
StoredCurrent(b) ==
    SumOver(OfBaseline(agent_performance, b), LAMBDA a : a.current_month_promised)
StoredFollowing(b) ==
    SumOver(OfBaseline(agent_performance, b), LAMBDA a : a.following_month_promised)
StoredTotal(b) ==
    SumOver(OfBaseline(agent_performance, b), LAMBDA a : a.total_promised)

C19_BaselinesImmutable ==
    [][/\ Len(baselines') >= Len(baselines)
       /\ \A i \in 1..Len(baselines) : baselines'[i] = baselines[i]
       /\ baselines' # baselines =>
            /\ Len(baselines') = Len(baselines) + 1
            /\ \A i \in 1..Len(baselines) :
                   baselines[i].id # baselines'[Len(baselines')].id
            /\ \/ last'.op = "create"
               \/ last'.op = "import" /\ last'.baseline_id = 0
       /\ Calls("create") => Len(baselines') = Len(baselines) + 1
       /\ (ImportStep /\ last'.baseline_id # 0) => baselines' = baselines
      ]_vars

\* after a successful import into baseline 1, given by id, the table holds
\* that one baseline
C19_Witness ==
    /\ last.op = "import" /\ last.ok /\ last.baseline_id = 1
    /\ Len(baselines) = 1
    /\ HasCompany(1)

\* C20: generate_progress_report without baseline id reports on the baseline
\* created last, also when several baselines have the same created_at; with no
\* baseline it returns the not-found message and raises nothing.
C20_ReportsOnLatest ==
    (last.op = "report" /\ last.baseline_id = 0) =>
        IF baselines = <<>>
        THEN last.result.kind = "message"
        ELSE last.resolved = baselines[Len(baselines)].id

\* C21: every stored agent row, office row and company row has a baseline_id
\* that is the id of a row of table baselines.
C21_ReferentialIntegrity ==
    /\ \A i \in 1..Len(agent_performance) : Exists(agent_performance[i].baseline_id)
    /\ \A i \in 1..Len(office_totals) : Exists(office_totals[i].baseline_id)
    /\ \A i \in 1..Len(company_totals) : Exists(company_totals[i].baseline_id)

====
